---- MODULE Spec2Model ----
(***************************************************************************)
(* Model of timber-js (src/src/index.ts): the Timber facade, its registry  *)
(* of planted trees (Timber.forest), the per-tree one-time tag, the        *)
(* isLoggable filter and the DispatcherTree fan-out.                        *)
(*                                                                          *)
(* The program is single-threaded and synchronous: every public call runs   *)
(* to completion, so each public call is one action.  The body of a call    *)
(* is computed by operators over a machine record                           *)
(*     m = [forest, tag, out, err]                                          *)
(* that follow the source statement by statement.  m.out is what a test     *)
(* spy (t.mock.method) on the tree methods records during the call, m.err   *)
(* is the error the call throws.                                            *)
(***************************************************************************)
EXTENDS Integers, Sequences, FiniteSets, TLC

\* ---------------------------------------------------------------- bounds
\* Calls that would grow the registry beyond MaxForest entries are not made.
MaxForest == 3
\* plant(...trees) / uproot(...trees) are called with 1..MaxArgs arguments.
MaxArgs == 2

\* ---------------------------------------------------------------- values
\* enum Level: the value of a level is also the name of the tree method
\* that logs at that level (tree[level](...)).
Level == [Debug |-> "debug", Info |-> "info", Warn |-> "warn", Error |-> "error"]
Levels == {Level.Debug, Level.Info, Level.Warn, Level.Error}

\* The JavaScript values undefined and null.
Undefined == "<undefined>"
Null == "<null>"

\* The trees the caller owns: H1 is a CustomTree (log() only, inherited
\* isLoggable), H2 is a CustomTree whose isLoggable is replaced by a mock.
Trees == {"H1", "H2"}
MockedTrees == {"H2"}
\* Timber.treeOfSouls, the one DispatcherTree.
Souls == "treeOfSouls"
AllTrees == Trees \cup {Souls}
\* What a caller can pass where a Tree is expected.
Refs == AllTrees \cup {Undefined, Null}

\* Tags passed to setTag / Timber.tag ("" is a string like any other here).
Tags == {"t", ""}
TagVals == Tags \cup {Undefined}

\* The level calls made: <<method, message, optionalParams>>.  Every level
\* with a plain message, one call without a message, one with an extra.
LevelCalls ==
  { <<l, "x", <<>>>> : l \in Levels }
    \cup { <<Level.Warn, Undefined, <<>>>>, <<Level.Info, "x", <<"e">>>> }

\* What the mocked isLoggable is set to return during a call that reaches
\* the trees in reached.
Verdicts(reached) ==
  IF \E i \in 1..Len(reached) : reached[i] \in MockedTrees
  THEN BOOLEAN ELSE {TRUE}

\* Errors thrown by the facade.
NoError == "ok"
ErrNull == "trees contains undefined or null"
ErrSelf == "Cannot plant Timber into itself."
ErrNotPlanted == "Cannot uproot tree which is not planted."
\* The error that DispatcherTree.log throws in src/unnamed/part_001.
ErrMissingOverride == "Missing override for log method."
\* The error a throwing write hook of the caller throws.
ErrHook == "write hook failed"

\* Non-empty argument lists of length 1..MaxArgs over S.
ArgLists(S) == UNION { [1..n -> S] : n \in 1..MaxArgs }

VARIABLES
  forest,   \* Timber.forest: the planted trees, in order
  tag,      \* Tree.tag of every tree (Undefined = property absent)
  handle,   \* TRUE when the caller holds the Tree returned by Timber.tag
  last,     \* the last public call: its arguments, what it threw, what the
            \* spies recorded, and the registry and tags before it
  planted,  \* history, kept by SpecPlant only: the arguments passed to
            \* plant so far, in the order they were passed
  armed,    \* history: per tree, the tag of the latest setTag on it that no
            \* level call on that tree has followed yet (else Undefined)
  snapshot  \* history, kept by SpecAlias only: the registry as it was when
            \* Timber.tag last returned the dispatcher

vars == <<forest, tag, handle, last, planted, armed, snapshot>>

\* ------------------------------------------------------- spy records
\* tree[method](message, ...optionalParams) was entered.
EvLevel(h, method, msg, extras) ==
  [ev |-> "level", tree |-> h, level |-> method, tag |-> Undefined,
   msg |-> msg, extras |-> extras, result |-> TRUE]
\* tree.isLoggable(level, tag) was called and returned result.
EvIsLoggable(h, level, t, result) ==
  [ev |-> "isLoggable", tree |-> h, level |-> level, tag |-> t,
   msg |-> Undefined, extras |-> <<>>, result |-> result]
\* tree.log(level, tag, message, ...optionalParams) was called.
EvLog(h, level, t, msg, extras) ==
  [ev |-> "log", tree |-> h, level |-> level, tag |-> t,
   msg |-> msg, extras |-> extras, result |-> TRUE]

\* tree.setTag(tag) was called.
EvSetTag(h, t) ==
  [ev |-> "setTag", tree |-> h, level |-> Undefined, tag |-> t,
   msg |-> Undefined, extras |-> <<>>, result |-> TRUE]

\* What the write hook of a caller's tree does when it is called: nothing
\* (the spy records the call), throw, or call Timber.plant(Sapling).
Hooks == {"record", "throw", "plant"}
Sapling == "H2"
\* Write hooks that take trees out of the registry: Timber.uproot(this),
\* Timber.uproot(the caller's other tree), Timber.uprootAll().
UprootHooks == {"record", "uprootSelf", "uprootOther", "uprootAll"}
Other(h) == CHOOSE o \in Trees : o # h
NoHooks == [h \in Trees |-> "record"]

\* A step of Tree.prepareLog on tree h: val is the tag read, passed to
\* isLoggable or passed to log, slot is h's tag slot when the step ran.
Step(name, h, val, slot) == [step |-> name, tree |-> h, val |-> val, slot |-> slot]

\* One step of the dispatcher's forEach: the index it is at, the forest at
\* that moment and the tree whose level method the callback enters, or
\* Undefined when the forest has no element at the index any more.
Visit(k, f, h) == [index |-> k, forest |-> f, tree |-> h]

Machine(f, t) ==
  [forest |-> f, tag |-> t, out |-> <<>>, err |-> NoError,
   hook |-> NoHooks, steps |-> <<>>, visits |-> <<>>]
Visited(m, k, h) == [m EXCEPT !.visits = Append(@, Visit(k, m.forest, h))]
\* The machine with the write hooks of the caller's trees set to hooks.
Hooked(m, hooks) == [m EXCEPT !.hook = hooks]
Stepped(m, name, h, val) ==
  [m EXCEPT !.steps = Append(@, Step(name, h, val, m.tag[h]))]
Spy(m, e) == [m EXCEPT !.out = Append(@, e)]
Throw(m, e) == [m EXCEPT !.err = e]

\* ------------------------------------------- class Timber: the registry
\* Timber.treeCount
treeCount(f) == Len(f)

\* Mutant of indexOf: the last index holding x (lastIndexOf).
indexOf_Last(f, x) ==
  IF \E i \in 1..Len(f) : f[i] = x
  THEN CHOOSE i \in 1..Len(f) : f[i] = x /\ \A j \in (i + 1)..Len(f) : f[j] # x
  ELSE 0

\* Array.prototype.indexOf: the first index holding x, 0 when there is none
\* (indices are 1-based here, so 0 stands for JavaScript's -1).
indexOf(f, x) ==
  IF \E i \in 1..Len(f) : f[i] = x
  THEN CHOOSE i \in 1..Len(f) : f[i] = x /\ \A j \in 1..(i - 1) : f[j] # x
  ELSE 0

\* Array.prototype.splice(start, deleteCount) with 0 <= start: removes up to
\* deleteCount elements from the 0-based position start on.
splice(f, start, deleteCount) ==
  LET from == IF start > Len(f) THEN Len(f) ELSE start
      n == IF deleteCount > Len(f) - from THEN Len(f) - from
           ELSE IF deleteCount < 0 THEN 0 ELSE deleteCount
  IN SubSeq(f, 1, from) \o SubSeq(f, from + n + 1, Len(f))

\* Mutant of PlantOne: a tree that is already planted is not planted again.
PlantOne_NoRepeat(m, tree) ==
  IF tree = Undefined \/ tree = Null THEN Throw(m, ErrNull)
  ELSE IF tree = Souls THEN Throw(m, ErrSelf)
  ELSE IF \E i \in 1..Len(m.forest) : m.forest[i] = tree THEN m
  ELSE [m EXCEPT !.forest = Append(@, tree)]

\* Mutant of PlantOne: only undefined is rejected, null is planted.
PlantOne_NullPlanted(m, tree) ==
  IF tree = Undefined THEN Throw(m, ErrNull)
  ELSE IF tree = Souls THEN Throw(m, ErrSelf)
  ELSE [m EXCEPT !.forest = Append(@, tree)]

\* Mutant of PlantOne: Timber.treeOfSouls is planted like any tree.
PlantOne_SelfPlanted(m, tree) ==
  IF tree = Undefined \/ tree = Null THEN Throw(m, ErrNull)
  ELSE [m EXCEPT !.forest = Append(@, tree)]

\* The callback of Timber.plant's forEach, for one argument.
PlantOne(m, tree) ==
  IF tree = Undefined \/ tree = Null THEN Throw(m, ErrNull)
  ELSE IF tree = Souls THEN Throw(m, ErrSelf)
  ELSE [m EXCEPT !.forest = Append(@, tree)]

RECURSIVE PlantEach(_, _, _)
PlantEach(m, trees, k) ==
  IF k > Len(trees) \/ m.err # NoError THEN m
  ELSE PlantEach(PlantOne(m, trees[k]), trees, k + 1)

\* Mutant of plant: a call that fails plants none of its arguments.
plant_Atomic(m, trees) ==
  LET r == PlantEach(m, trees, 1)
  IN IF r.err # NoError THEN [r EXCEPT !.forest = m.forest] ELSE r

\* Timber.plant(...trees)
plant(m, trees) == PlantEach(m, trees, 1)

\* Mutant of UprootOne: the tree that is removed loses its pending tag.
UprootOne_ClearsTag(m, tree) ==
  LET index == indexOf(m.forest, tree)
  IN IF index = 0 THEN Throw(m, ErrNotPlanted)
     ELSE [m EXCEPT !.forest = splice(@, index - 1, 1), !.tag[tree] = Undefined]

\* Mutant of UprootOne: the index is not checked, and splice(-1, 1) removes
\* the last element.
UprootOne_NoCheck(m, tree) ==
  LET index == indexOf(m.forest, tree)
  IN IF index = 0 THEN [m EXCEPT !.forest = SubSeq(@, 1, Len(@) - 1)]
     ELSE [m EXCEPT !.forest = splice(@, index - 1, 1)]

\* The callback of Timber.uproot's forEach, for one argument.
UprootOne(m, tree) ==
  LET index == indexOf(m.forest, tree)
  IN IF index = 0 THEN Throw(m, ErrNotPlanted)
     ELSE [m EXCEPT !.forest = splice(@, index - 1, 1)]

RECURSIVE UprootEach(_, _, _)
UprootEach(m, trees, k) ==
  IF k > Len(trees) \/ m.err # NoError THEN m
  ELSE UprootEach(UprootOne(m, trees[k]), trees, k + 1)

\* Timber.uproot(...trees)
uproot(m, trees) == UprootEach(m, trees, 1)

\* Mutant of uprootAll: one tree too few is removed.
uprootAll_OneLeft(m) ==
  [m EXCEPT !.forest = splice(@, 0, treeCount(@) - 1)]

\* Timber.uprootAll: forest.splice(0, treeCount())
uprootAll(m) ==
  [m EXCEPT !.forest = splice(@, 0, treeCount(@))]

\* ------------------------------------------------------------ class Tree
\* Tree.setTag
setTag(m, h, t) == Spy([m EXCEPT !.tag[h] = t], EvSetTag(h, t))

\* Tree.getTag: returns the tag, changes nothing.
getTag(m, h) == m.tag[h]

\* Tree.isLoggable: true unless overridden; the mock of a MockedTree
\* returns the verdict it was given for the call.
isLoggable(h, level, t, verdict) ==
  IF h \in MockedTrees THEN verdict ELSE TRUE

RECURSIVE prepareLog(_, _, _, _, _, _)
RECURSIVE DispatcherForEach(_, _, _, _, _, _, _)

\* CustomTree.log: the caller's write hook.  As written in the tests it does
\* nothing (only the spy sees the call); a hook may also throw, or call
\* Timber.plant, Timber.uproot or Timber.uprootAll while the fan-out that
\* called it is still running.
CustomTreeLog(m, h, level, t, msg, extras) ==
  CASE m.hook[h] = "record" -> m
    [] m.hook[h] = "throw" -> Throw(m, ErrHook)
    [] m.hook[h] = "plant" -> plant(m, <<Sapling>>)
    [] m.hook[h] = "uprootSelf" -> uproot(m, <<h>>)
    [] m.hook[h] = "uprootOther" -> uproot(m, <<Other(h)>>)
    [] m.hook[h] = "uprootAll" -> uprootAll(m)

\* Mutant of DispatcherTreeLog: the dispatcher iterates a copy of the forest
\* taken when it was constructed, which is empty.
DispatcherTreeLog_Copy(m, level, msg, extras, verdict) ==
  DispatcherForEach(m, 1, 0, level, msg, extras, verdict)

\* DispatcherTree.log: this.forest.forEach(tree => tree[level](message, ...)).
\* Array.prototype.forEach reads the length once, visits the indices below
\* it in ascending order and skips an index that is no longer present.
DispatcherTreeLog(m, level, msg, extras, verdict) ==
  DispatcherForEach(m, 1, Len(m.forest), level, msg, extras, verdict)

\* The log method of h's class, as the pipeline calls it.
log(m, h, level, t, msg, extras, verdict) ==
  LET m1 == Stepped(Spy(m, EvLog(h, level, t, msg, extras)), "log", h, t)
  IN IF h = Souls THEN DispatcherTreeLog(m1, level, msg, extras, verdict)
     ELSE CustomTreeLog(m1, h, level, t, msg, extras)

\* Mutant of prepareLog: the filter runs first and gets the tag; the slot is
\* cleared after it.
prepareLog_FilterBeforeClear(m, h, level, msg, extras, verdict) ==
  LET t == getTag(m, h)
      m0 == Stepped(m, "getTag", h, t)
      ok == isLoggable(h, level, t, verdict)
      m1 == Stepped(Spy(m0, EvIsLoggable(h, level, t, ok)), "isLoggable", h, t)
      m2 == Stepped([m1 EXCEPT !.tag[h] = Undefined], "delete", h, Undefined)
  IN IF ~ok THEN m2
     ELSE log(m2, h, level, t, msg, extras, verdict)

\* Mutant of prepareLog: the slot is cleared only on the way to the write
\* hook; a call that the filter rejects keeps the tag.
prepareLog_ClearWhenLogged(m, h, level, msg, extras, verdict) ==
  LET t == getTag(m, h)
      m0 == Stepped(m, "getTag", h, t)
      ok == isLoggable(h, level, t, verdict)
      m1 == Stepped(Spy(m0, EvIsLoggable(h, level, t, ok)), "isLoggable", h, t)
      m2 == Stepped([m1 EXCEPT !.tag[h] = Undefined], "delete", h, Undefined)
  IN IF ~ok THEN m1
     ELSE log(m2, h, level, t, msg, extras, verdict)

\* Mutant of prepareLog: the tag is not deleted after it is read.
prepareLog_KeepTag(m, h, level, msg, extras, verdict) ==
  LET t == getTag(m, h)
      ok == isLoggable(h, level, t, verdict)
      m2 == Spy(m, EvIsLoggable(h, level, t, ok))
  IN IF ~ok THEN m2
     ELSE log(m2, h, level, t, msg, extras, verdict)

\* Mutant of prepareLog: the result of isLoggable is ignored.
prepareLog_NoFilter(m, h, level, msg, extras, verdict) ==
  LET t == getTag(m, h)
      m1 == [m EXCEPT !.tag[h] = Undefined]
      ok == isLoggable(h, level, t, verdict)
      m2 == Spy(m1, EvIsLoggable(h, level, t, ok))
  IN log(m2, h, level, t, msg, extras, verdict)

\* Tree.prepareLog
prepareLog(m, h, level, msg, extras, verdict) ==
  LET t == getTag(m, h)
      m0 == Stepped(m, "getTag", h, t)
      m1 == Stepped([m0 EXCEPT !.tag[h] = Undefined], "delete", h, Undefined)
      ok == isLoggable(h, level, t, verdict)
      m2 == Stepped(Spy(m1, EvIsLoggable(h, level, t, ok)), "isLoggable", h, t)
  IN IF ~ok THEN m2
     ELSE log(m2, h, level, t, msg, extras, verdict)

\* Tree.debug / info / warn / error
debug(m, h, msg, extras, verdict) ==
  prepareLog(Spy(m, EvLevel(h, "debug", msg, extras)), h, Level.Debug, msg, extras, verdict)
info(m, h, msg, extras, verdict) ==
  prepareLog(Spy(m, EvLevel(h, "info", msg, extras)), h, Level.Info, msg, extras, verdict)
warn(m, h, msg, extras, verdict) ==
  prepareLog(Spy(m, EvLevel(h, "warn", msg, extras)), h, Level.Warn, msg, extras, verdict)
error(m, h, msg, extras, verdict) ==
  prepareLog(Spy(m, EvLevel(h, "error", msg, extras)), h, Level.Error, msg, extras, verdict)

\* tree[method](message, ...optionalParams)
Invoke(m, h, method, msg, extras, verdict) ==
  CASE method = "debug" -> debug(m, h, msg, extras, verdict)
    [] method = "info" -> info(m, h, msg, extras, verdict)
    [] method = "warn" -> warn(m, h, msg, extras, verdict)
    [] method = "error" -> error(m, h, msg, extras, verdict)

\* Mutant of DispatcherForEach: the iteration runs over a copy of the forest
\* made when it begins.
RECURSIVE DispatcherForEach_OverCopy(_, _, _, _, _, _, _)
DispatcherForEach_OverCopy(m, k, len, level, msg, extras, verdict) ==
  LET copy == IF m.visits = <<>> THEN m.forest ELSE m.visits[1].forest
  IN IF k > len \/ m.err # NoError THEN m
     ELSE DispatcherForEach_OverCopy(
            Invoke(Visited(m, k, copy[k]), copy[k], level, msg, extras, verdict),
            k + 1, len, level, msg, extras, verdict)

\* Mutant of DispatcherForEach: the tag belongs to the registry entry; a
\* tree that has a later entry gets its tag back after the call.
RECURSIVE DispatcherForEach_TagPerEntry(_, _, _, _, _, _, _)
DispatcherForEach_TagPerEntry(m, k, len, level, msg, extras, verdict) ==
  IF k > len \/ m.err # NoError THEN m
  ELSE IF k > Len(m.forest)
       THEN DispatcherForEach_TagPerEntry(m, k + 1, len, level, msg, extras, verdict)
       ELSE LET h == m.forest[k]
                r == Invoke(m, h, level, msg, extras, verdict)
                again == \E j \in (k + 1)..Len(m.forest) : m.forest[j] = h
            IN DispatcherForEach_TagPerEntry(
                 IF again THEN [r EXCEPT !.tag[h] = m.tag[h]] ELSE r,
                 k + 1, len, level, msg, extras, verdict)

\* Mutant of DispatcherForEach: the length of the forest is read when the
\* first callback has returned, not before it.
RECURSIVE DispatcherForEach_LateLength(_, _, _, _, _, _, _)
DispatcherForEach_LateLength(m, k, len, level, msg, extras, verdict) ==
  IF k > len \/ m.err # NoError THEN m
  ELSE IF k > Len(m.forest)
       THEN DispatcherForEach_LateLength(m, k + 1, len, level, msg, extras, verdict)
       ELSE LET r == Invoke(m, m.forest[k], level, msg, extras, verdict)
            IN DispatcherForEach_LateLength(
                 r, k + 1, IF k = 1 THEN Len(r.forest) ELSE len,
                 level, msg, extras, verdict)

\* Mutant of DispatcherForEach: the callback catches what a tree throws and
\* the iteration goes on.
RECURSIVE DispatcherForEach_Catch(_, _, _, _, _, _, _)
DispatcherForEach_Catch(m, k, len, level, msg, extras, verdict) ==
  IF k > len THEN m
  ELSE IF k > Len(m.forest)
       THEN DispatcherForEach_Catch(m, k + 1, len, level, msg, extras, verdict)
       ELSE DispatcherForEach_Catch(
              [Invoke(m, m.forest[k], level, msg, extras, verdict)
                 EXCEPT !.err = NoError],
              k + 1, len, level, msg, extras, verdict)

\* Mutant of DispatcherForEach: a tree that has an earlier entry in the
\* forest is not called again.
RECURSIVE DispatcherForEach_SkipRepeat(_, _, _, _, _, _, _)
DispatcherForEach_SkipRepeat(m, k, len, level, msg, extras, verdict) ==
  IF k > len \/ m.err # NoError THEN m
  ELSE IF k > Len(m.forest) \/ \E j \in 1..(k - 1) : m.forest[j] = m.forest[k]
       THEN DispatcherForEach_SkipRepeat(m, k + 1, len, level, msg, extras, verdict)
       ELSE DispatcherForEach_SkipRepeat(
              Invoke(m, m.forest[k], level, msg, extras, verdict),
              k + 1, len, level, msg, extras, verdict)

DispatcherForEach(m, k, len, level, msg, extras, verdict) ==
  IF k > len \/ m.err # NoError THEN m
  ELSE IF k > Len(m.forest)
       THEN DispatcherForEach(Visited(m, k, Undefined),
                              k + 1, len, level, msg, extras, verdict)
       ELSE DispatcherForEach(Invoke(Visited(m, k, m.forest[k]), m.forest[k],
                                     level, msg, extras, verdict),
                              k + 1, len, level, msg, extras, verdict)

\* ------------------------------------------- class Timber: tag and log
RECURSIVE TagEach(_, _, _, _)
TagEach(m, k, len, t) ==
  IF k > len THEN m
  ELSE TagEach(setTag(m, m.forest[k], t), k + 1, len, t)

\* Mutant of timberTag: only the first planted tree gets the tag.
timberTag_FirstOnly(m, t) ==
  TagEach(m, 1, IF Len(m.forest) > 0 THEN 1 ELSE 0, t)

\* Timber.tag(tag): setTag on every planted tree; returns Timber.treeOfSouls.
timberTag(m, t) == TagEach(m, 1, Len(m.forest), t)

\* Timber.log(method, message, ...): Timber.treeOfSouls[method](message, ...)
timberLog(m, method, msg, extras, verdict) ==
  Invoke(m, Souls, method, msg, extras, verdict)

\* ------------------------------------------------------------- the calls
NoCall ==
  [op |-> "none", args |-> <<>>, tree |-> Undefined, level |-> Undefined,
   tagArg |-> Undefined, msg |-> Undefined, extras |-> <<>>,
   err |-> NoError, out |-> <<>>, ret |-> Undefined,
   preForest |-> <<>>, preTag |-> [h \in AllTrees |-> Undefined],
   preArmed |-> [h \in AllTrees |-> Undefined],
   hooks |-> NoHooks, steps |-> <<>>, console |-> <<>>, visits |-> <<>>]

\* The record of a call made in the current state with outcome m.
Called(c, m) ==
  [c EXCEPT !.err = m.err, !.out = m.out, !.preForest = forest,
            !.preTag = tag, !.preArmed = armed,
            !.hooks = m.hook, !.steps = m.steps, !.visits = m.visits]

\* Some level method of tree h was entered during the call with outcome m.
LevelEntered(m, h) ==
  \E i \in 1..Len(m.out) : m.out[i].ev = "level" /\ m.out[i].tree = h

\* The call c ran with outcome m; a is armed as the call's setTags leave it.
Commit(c, m, a) ==
  /\ forest' = m.forest
  /\ tag' = m.tag
  /\ last' = Called(c, m)
  /\ armed' = [h \in AllTrees |-> IF LevelEntered(m, h) THEN Undefined ELSE a[h]]

Init ==
  /\ forest = <<>>
  /\ tag = [h \in AllTrees |-> Undefined]
  /\ handle = FALSE
  /\ last = NoCall
  /\ planted = <<>>
  /\ armed = [h \in AllTrees |-> Undefined]
  /\ snapshot = <<>>

\* Timber.plant(...trees)
Plant ==
  \E trees \in ArgLists(Refs) :
    LET m == plant(Machine(forest, tag), trees)
    IN /\ Len(forest) + Len(trees) <= MaxForest + 1
       /\ Len(m.forest) <= MaxForest
       /\ Commit([NoCall EXCEPT !.op = "plant", !.args = trees], m, armed)
       /\ UNCHANGED <<handle, planted, snapshot>>

\* Timber.uproot(...trees)
Uproot ==
  \E trees \in ArgLists(AllTrees) :
    LET m == uproot(Machine(forest, tag), trees)
    IN /\ Len(trees) <= Len(forest) + 1
       /\ Commit([NoCall EXCEPT !.op = "uproot", !.args = trees], m, armed)
       /\ UNCHANGED <<handle, planted, snapshot>>

\* Timber.uprootAll()
UprootAll ==
  LET m == uprootAll(Machine(forest, tag))
  IN /\ Commit([NoCall EXCEPT !.op = "uprootAll"], m, armed)
     /\ UNCHANGED <<handle, planted, snapshot>>

\* Timber.treeCount()
TreeCount ==
  /\ last' = [Called([NoCall EXCEPT !.op = "treeCount"], Machine(forest, tag))
                EXCEPT !.ret = treeCount(forest)]
  /\ UNCHANGED <<forest, tag, handle, planted, armed, snapshot>>

\* Timber.tag(tag)
TimberTag ==
  \E t \in Tags :
    LET m == timberTag(Machine(forest, tag), t)
        planted_now == { forest[i] : i \in 1..Len(forest) }
    IN /\ Commit([NoCall EXCEPT !.op = "tag", !.tagArg = t, !.ret = Souls], m,
                 [h \in AllTrees |-> IF h \in planted_now THEN t ELSE armed[h]])
       /\ handle' = TRUE
       /\ UNCHANGED <<planted, snapshot>>

\* Timber.debug / info / warn / error (message, ...optionalParams)
TimberLevel ==
  \E c \in LevelCalls : \E verdict \in Verdicts(forest) :
    LET m == timberLog(Machine(forest, tag), c[1], c[2], c[3], verdict)
    IN /\ Commit([NoCall EXCEPT !.op = "Timber.level", !.level = c[1],
                                !.msg = c[2], !.extras = c[3]], m, armed)
       /\ UNCHANGED <<handle, planted, snapshot>>

\* A level call on the Tree returned by an earlier Timber.tag.
HandleLevel ==
  \E c \in LevelCalls : \E verdict \in Verdicts(forest) :
    LET m == Invoke(Machine(forest, tag), Souls, c[1], c[2], c[3], verdict)
    IN /\ handle
       /\ Commit([NoCall EXCEPT !.op = "handle.level", !.tree = Souls,
                                !.level = c[1], !.msg = c[2], !.extras = c[3]],
                 m, armed)
       /\ UNCHANGED <<handle, planted, snapshot>>

\* tree.setTag(tag) on one of the caller's trees.
TreeSetTag ==
  \E h \in Trees, t \in Tags :
    LET m == setTag(Machine(forest, tag), h, t)
    IN /\ Commit([NoCall EXCEPT !.op = "setTag", !.tree = h, !.tagArg = t],
                 m, [armed EXCEPT ![h] = t])
       /\ UNCHANGED <<handle, planted, snapshot>>

\* tree.debug / info / warn / error on one of the caller's trees.
TreeLevel ==
  \E h \in Trees, c \in LevelCalls : \E verdict \in Verdicts(<<h>>) :
    LET m == Invoke(Machine(forest, tag), h, c[1], c[2], c[3], verdict)
    IN /\ Commit([NoCall EXCEPT !.op = "tree.level", !.tree = h,
                                !.level = c[1], !.msg = c[2], !.extras = c[3]],
                 m, armed)
       /\ UNCHANGED <<handle, planted, snapshot>>

Next ==
  \/ Plant
  \/ Uproot
  \/ UprootAll
  \/ TreeCount
  \/ TimberTag
  \/ TimberLevel
  \/ HandleLevel
  \/ TreeSetTag
  \/ TreeLevel

Spec == Init /\ [][Next]_vars

\* Timber.plant(...trees) with trees only, from the empty registry on; the
\* history variable planted collects the arguments.
PlantTrees ==
  \E trees \in ArgLists(Trees) :
    LET m == plant(Machine(forest, tag), trees)
    IN /\ Len(forest) + Len(trees) <= MaxForest
       /\ Commit([NoCall EXCEPT !.op = "plant", !.args = trees], m, armed)
       /\ planted' = planted \o trees
       /\ UNCHANGED <<handle, snapshot>>

NextPlant ==
  \/ PlantTrees
  \/ TreeCount
  \/ TimberLevel

\* No call that removes a tree: plant, treeCount and the level calls only.
SpecPlant == Init /\ [][NextPlant]_vars

\* Timber.plant(tree) with one of the caller's trees.
PlantTree ==
  \E h \in Trees :
    LET m == plant(Machine(forest, tag), <<h>>)
    IN /\ Len(forest) < MaxForest
       /\ Commit([NoCall EXCEPT !.op = "plant", !.args = <<h>>], m, armed)
       /\ UNCHANGED <<handle, planted, snapshot>>

\* Timber.uproot(tree) with one of the caller's trees, planted or not.
UprootTree ==
  \E h \in Trees :
    LET m == uproot(Machine(forest, tag), <<h>>)
    IN /\ Commit([NoCall EXCEPT !.op = "uproot", !.args = <<h>>], m, armed)
       /\ UNCHANGED <<handle, planted, snapshot>>

\* const handle = Timber.tag("t"): the caller keeps the returned dispatcher;
\* the history variable snapshot keeps the registry of that moment.
TagKeepHandle ==
  \E t \in {"t"} :
    LET m == timberTag(Machine(forest, tag), t)
        planted_now == { forest[i] : i \in 1..Len(forest) }
    IN /\ Commit([NoCall EXCEPT !.op = "tag", !.tagArg = t, !.ret = Souls], m,
                 [h \in AllTrees |-> IF h \in planted_now THEN t ELSE armed[h]])
       /\ handle' = TRUE
       /\ snapshot' = forest
       /\ UNCHANGED planted

NextAlias ==
  \/ PlantTree
  \/ UprootTree
  \/ UprootAll
  \/ TagKeepHandle
  \/ TimberLevel
  \/ HandleLevel

\* The registry changes one tree at a time between the moment the caller
\* obtains the dispatcher from Timber.tag and the level calls made on it.
SpecAlias == Init /\ [][NextAlias]_vars

\* Timber.debug / info / warn / error (message, ...optionalParams) while the
\* write hooks of the caller's trees behave as hooks says.
HookedLevel ==
  \E c \in LevelCalls, hooks \in [Trees -> Hooks] : \E verdict \in Verdicts(forest) :
    LET m == timberLog(Hooked(Machine(forest, tag), hooks), c[1], c[2], c[3], verdict)
    IN /\ Len(m.forest) <= MaxForest
       /\ Commit([NoCall EXCEPT !.op = "Timber.level", !.level = c[1],
                                !.msg = c[2], !.extras = c[3]], m, armed)
       /\ UNCHANGED <<handle, planted, snapshot>>

NextHooks ==
  \/ PlantTree
  \/ UprootTree
  \/ UprootAll
  \/ HookedLevel

\* Facade level calls on trees whose write hooks throw or call back into
\* Timber.
SpecHooks == Init /\ [][NextHooks]_vars

\* ------------------------------------------------------- class DebugTree
\* The switch of DebugTree.log: the console method for a level.
DebugTreeMethod(level) ==
  CASE level = Level.Info -> "info"
    [] level = Level.Warn -> "warn"
    [] level = Level.Error -> "error"
    [] level = Level.Debug -> "debug"
    [] OTHER -> "debug"

\* if (tag): undefined and the empty string are falsy.
Truthy(t) == t # Undefined /\ t # ""

\* A call console[method](...args).
ConsoleCall(method, args) == [method |-> method, args |-> args]

\* Mutant of DebugTreeLog: the marker is printed whenever the tag is not
\* undefined.
DebugTreeLog_DefinedTag(level, t, msg, extras) ==
  IF t # Undefined
  THEN <<ConsoleCall(DebugTreeMethod(level), <<"[" \o t \o "]", msg>> \o extras)>>
  ELSE <<ConsoleCall(DebugTreeMethod(level), <<msg>> \o extras)>>

\* DebugTree.log(level, tag, message, ...optionalParams): the calls it makes
\* on the console.
DebugTreeLog(level, t, msg, extras) ==
  IF Truthy(t)
  THEN <<ConsoleCall(DebugTreeMethod(level), <<"[" \o t \o "]", msg>> \o extras)>>
  ELSE <<ConsoleCall(DebugTreeMethod(level), <<msg>> \o extras)>>

DebugTags == {Undefined, "", "t", "tag"}
DebugMessages == {Undefined, "x", "whatever"}
DebugExtras == {<<>>, <<"e">>, <<"e", "f">>}

\* new DebugTree().log(level, tag, message, ...optionalParams) with the
\* console methods mocked, as the tests call it.
DebugLog ==
  \E level \in Levels, t \in DebugTags, msg \in DebugMessages, extras \in DebugExtras :
    /\ last' = [NoCall EXCEPT !.op = "DebugTree.log", !.level = level,
                              !.tagArg = t, !.msg = msg, !.extras = extras,
                              !.console = DebugTreeLog(level, t, msg, extras)]
    /\ UNCHANGED <<forest, tag, handle, planted, armed, snapshot>>

NextDebugTree == DebugLog

\* Direct calls of DebugTree's write hook.
SpecDebugTree == Init /\ [][NextDebugTree]_vars

\* tree.getTag() on one of the caller's trees, as the tests call it.
TreeGetTag ==
  \E h \in Trees :
    LET m == Machine(forest, tag)
    IN /\ Commit([NoCall EXCEPT !.op = "getTag", !.tree = h,
                                !.ret = getTag(m, h)], m, armed)
       /\ UNCHANGED <<handle, planted, snapshot>>

NextTag ==
  \/ TreeSetTag
  \/ TreeGetTag
  \/ TreeLevel

\* One tree's tag slot: setTag, getTag and level calls on the caller's trees.
SpecTag == Init /\ [][NextTag]_vars

\* Timber.tag(...).setTag(tag): setTag on the dispatcher itself.
HandleSetTag ==
  \E t \in Tags :
    LET m == setTag(Machine(forest, tag), Souls, t)
    IN /\ handle
       /\ Commit([NoCall EXCEPT !.op = "setTag", !.tree = Souls, !.tagArg = t],
                 m, [armed EXCEPT ![Souls] = t])
       /\ UNCHANGED <<handle, planted, snapshot>>

\* Timber.tag(...).log(level, tag, message, ...optionalParams): the write
\* hook of the dispatcher, called directly.
HandleLog ==
  \E c \in LevelCalls, t \in {Undefined, "t"} : \E verdict \in Verdicts(forest) :
    LET m == log(Machine(forest, tag), Souls, c[1], t, c[2], c[3], verdict)
    IN /\ handle
       /\ Commit([NoCall EXCEPT !.op = "handle.log", !.tree = Souls,
                                !.level = c[1], !.tagArg = t,
                                !.msg = c[2], !.extras = c[3]], m, armed)
       /\ UNCHANGED <<handle, planted, snapshot>>

NextDispatcher ==
  \/ PlantTree
  \/ UprootAll
  \/ TimberTag
  \/ TimberLevel
  \/ HandleSetTag
  \/ HandleLevel
  \/ HandleLog

\* The dispatcher used as a Tree of its own: its tag slot, its level methods
\* and its write hook.
SpecDispatcher == Init /\ [][NextDispatcher]_vars

NextPending ==
  \/ PlantTree
  \/ UprootTree
  \/ UprootAll
  \/ TimberTag
  \/ TimberLevel
  \/ TreeLevel

\* Timber.tag is the only call that sets a tag; the registry changes one tree
\* at a time and level calls reach the trees through the facade or directly.
SpecPending == Init /\ [][NextPending]_vars

\* Timber.debug / info / warn / error (message, ...optionalParams) while the
\* write hooks of the caller's trees uproot trees as hooks says.
UprootingLevel ==
  \E c \in LevelCalls, hooks \in [Trees -> UprootHooks] : \E verdict \in Verdicts(forest) :
    LET m == timberLog(Hooked(Machine(forest, tag), hooks), c[1], c[2], c[3], verdict)
    IN /\ Commit([NoCall EXCEPT !.op = "Timber.level", !.level = c[1],
                                !.msg = c[2], !.extras = c[3]], m, armed)
       /\ UNCHANGED <<handle, planted, snapshot>>

NextUprooting ==
  \/ PlantTree
  \/ UprootTree
  \/ UprootingLevel

\* Facade level calls on trees whose write hooks call Timber.uproot or
\* Timber.uprootAll.
SpecUprooting == Init /\ [][NextUprooting]_vars

TypeOK ==
  /\ forest \in Seq(Trees)
  /\ Len(forest) <= MaxForest
  /\ tag \in [AllTrees -> TagVals]
  /\ handle \in BOOLEAN

\* ------------------------------------------------------------ the claims
\* The number of entries of f that are h.
Occurrences(f, h) == Cardinality({ i \in 1..Len(f) : f[i] = h })

\* h is an entry of f.
Occurs(f, h) == \E i \in 1..Len(f) : f[i] = h

\* C1: from the empty registry, after any sequence of successful plant calls
\* and no uproot or uprootAll, the registry holds exactly the arguments
\* passed, repeated instances included, in the order they were passed, and
\* treeCount() is their number.
C1_PlantAppends ==
  /\ forest = planted
  /\ treeCount(forest) = Len(planted)
  /\ last.op = "treeCount" => last.ret = Len(planted)
  /\ last.op = "plant" => last.err = NoError

\* A two-argument plant has put the same instance into the registry a second
\* time, after two earlier entries.
C1_Witness ==
  /\ last.op = "plant"
  /\ last.args = <<"H2", "H1">>
  /\ planted = <<"H1", "H2", "H1">>
  /\ forest = planted

\* C2: plant(undefined) and plant(null) fail in every registry state and
\* leave the registry (contents, order, treeCount) as it was.
C2_PlantNullFails ==
  (last.op = "plant" /\ last.args \in {<<Undefined>>, <<Null>>})
    => /\ last.err = ErrNull
       /\ forest = last.preForest
       /\ treeCount(forest) = treeCount(last.preForest)

\* plant(null) was called on a registry with a repeated tree and failed.
C2_Witness ==
  /\ last.op = "plant"
  /\ last.args = <<Null>>
  /\ last.preForest = <<"H1", "H2", "H1">>
  /\ last.err = ErrNull

\* C3: Timber.treeOfSouls is never an entry of the registry, and every
\* plant call that passes it fails, whatever else is passed and whatever
\* calls came before.
C3_NeverSelfPlanted ==
  /\ ~Occurs(forest, Souls)
  /\ (last.op = "plant" /\ Occurs(last.args, Souls)) => last.err # NoError

\* After Timber.tag handed out the dispatcher, plant(H1, treeOfSouls) on a
\* non-empty registry failed with the self-plant error.
C3_Witness ==
  /\ last.op = "plant"
  /\ last.args = <<"H1", Souls>>
  /\ last.err = ErrSelf
  /\ handle
  /\ last.preForest # <<>>
  /\ ~Occurs(forest, Souls)

\* C4: uproot(h) with h planted removes exactly the first occurrence of h:
\* the entries before and after it stay, in their order, and treeCount drops
\* by one; a successful uproot of n arguments drops treeCount by n.
C4_UprootFirstOccurrence ==
  /\ (last.op = "uproot" /\ Len(last.args) = 1 /\ Occurs(last.preForest, last.args[1]))
       => /\ last.err = NoError
          /\ \E i \in 1..Len(last.preForest) :
               /\ last.preForest[i] = last.args[1]
               /\ \A j \in 1..(i - 1) : last.preForest[j] # last.args[1]
               /\ forest = SubSeq(last.preForest, 1, i - 1)
                             \o SubSeq(last.preForest, i + 1, Len(last.preForest))
          /\ treeCount(forest) = treeCount(last.preForest) - 1
  /\ (last.op = "uproot" /\ last.err = NoError)
       => treeCount(forest) = treeCount(last.preForest) - Len(last.args)

\* uproot(H1) on [H1, H2, H1] left [H2, H1].
C4_Witness ==
  /\ last.op = "uproot"
  /\ last.args = <<"H1">>
  /\ last.preForest = <<"H1", "H2", "H1">>
  /\ forest = <<"H2", "H1">>

\* C5: uproot(h) with no occurrence of h in the registry fails and leaves
\* the registry (contents, order, treeCount) as it was.
C5_UprootAbsentFails ==
  (last.op = "uproot" /\ Len(last.args) = 1 /\ ~Occurs(last.preForest, last.args[1]))
    => /\ last.err = ErrNotPlanted
       /\ forest = last.preForest
       /\ treeCount(forest) = treeCount(last.preForest)

\* uproot(H2) failed on a registry that holds H1 only.
C5_Witness ==
  /\ last.op = "uproot"
  /\ last.args = <<"H2">>
  /\ last.preForest = <<"H1", "H1">>
  /\ last.err = ErrNotPlanted
  /\ forest = <<"H1", "H1">>

\* C6: uprootAll() never fails and leaves treeCount() = 0, whatever the
\* registry held.
C6_UprootAllEmpties ==
  last.op = "uprootAll" => (last.err = NoError /\ treeCount(forest) = 0)

\* uprootAll() emptied a full registry that held a tree twice.
C6_Witness ==
  /\ last.op = "uprootAll"
  /\ Len(last.preForest) = MaxForest
  /\ Occurrences(last.preForest, "H1") >= 2
  /\ forest = <<>>

\* The records of kind ev that the spies on the trees in S made during the
\* last call, in the order they were made.
Recorded(ev, S) == SelectSeq(last.out, LAMBDA e : e.ev = ev /\ e.tree \in S)

\* No isLoggable of a tree in S returned false during the last call.
Admitted(S) == \A i \in 1..Len(last.out) :
  (last.out[i].ev = "isLoggable" /\ last.out[i].tree \in S) => last.out[i].result

\* The tags that the level calls on tree h saw during the last call are the
\* tag pending on h before the call, once, and then no tag.
OneTimeTags(h) ==
  LET checks == Recorded("isLoggable", {h})
      logs == Recorded("log", {h})
  IN /\ \A i \in 1..Len(checks) :
          checks[i].tag = IF i = 1 THEN last.preArmed[h] ELSE Undefined
     /\ \A i \in 1..Len(logs) : logs[i].tag \in {last.preArmed[h], Undefined}
     /\ last.preArmed[h] # Undefined =>
          Cardinality({ i \in 1..Len(logs) : logs[i].tag = last.preArmed[h] })
            = IF Len(checks) > 0 /\ checks[1].result THEN 1 ELSE 0

\* C7: Timber.debug/info/warn/error(message, ...extras) enters the method
\* of the same name of every registry entry, once per occurrence and in
\* registry order, with message and extras unchanged; the write hook of a
\* tree planted k times runs k times with that level and message (for a
\* tree whose isLoggable admits the calls, as the inherited one does); a
\* single planted tree with no pending tag gets (level, undefined, message).
C7_FanOut ==
  last.op = "Timber.level" =>
    LET entries == Recorded("level", Trees)
        logs == Recorded("log", Trees)
    IN /\ last.err = NoError
       /\ entries = [i \in 1..Len(last.preForest) |->
                      EvLevel(last.preForest[i], last.level, last.msg, last.extras)]
       /\ \A i \in 1..Len(logs) :
            /\ logs[i].level = last.level
            /\ logs[i].msg = last.msg
            /\ logs[i].extras = last.extras
       /\ \A h \in Trees : Admitted({h}) =>
            Len(Recorded("log", {h})) = Occurrences(last.preForest, h)
       /\ Admitted(Trees) =>
            [i \in 1..Len(logs) |-> logs[i].tree] = last.preForest
       /\ \A h \in Trees :
            (last.preForest = <<h>> /\ last.preArmed[h] = Undefined /\ Admitted({h}))
              => logs = <<EvLog(h, last.level, Undefined, last.msg, last.extras)>>

\* Timber.info("x", "e") with registry [H1, H2, H1] ran the write hooks of
\* H1, H2, H1 in that order, H1's twice.
C7_Witness ==
  /\ last.op = "Timber.level"
  /\ last.level = Level.Info
  /\ last.extras = <<"e">>
  /\ last.preForest = <<"H1", "H2", "H1">>
  /\ Len(Recorded("log", {"H1"})) = 2
  /\ Len(Recorded("log", {"H2"})) = 1
  /\ Recorded("log", Trees)[3] = EvLog("H1", Level.Info, Undefined, "x", <<"e">>)

\* C8: after H.setTag(T) the next level call on H hands T to isLoggable and
\* to the write hook, and a further level call on H without a setTag in
\* between hands them undefined: the slot is empty once a level call ran.
C8_OneTimeTag ==
  last.op = "tree.level" =>
    LET h == last.tree
        checks == Recorded("isLoggable", {h})
        logs == Recorded("log", {h})
    IN /\ Len(checks) = 1
       /\ checks[1].tag = last.preArmed[h]
       /\ checks[1].result =>
            logs = <<EvLog(h, last.level, last.preArmed[h], last.msg, last.extras)>>
       /\ tag[h] = Undefined
       /\ armed[h] = Undefined

\* H1.setTag("t") was followed by a level call on H1 whose write hook got "t".
C8_Witness ==
  /\ last.op = "tree.level"
  /\ last.tree = "H1"
  /\ last.preArmed["H1"] = "t"
  /\ Recorded("log", {"H1"}) = <<EvLog("H1", last.level, "t", last.msg, last.extras)>>
  /\ tag["H1"] = Undefined

\* C9: Timber.tag(T) calls setTag(T) on every planted tree and returns the
\* dispatcher; a level call on the returned tree then hands T to the write
\* hook of every planted tree exactly once, and the facade level call after
\* it hands every planted tree undefined.
C9_TagThenLog ==
  /\ last.op = "tag" =>
       /\ last.ret = Souls
       /\ last.err = NoError
       /\ forest = last.preForest
       /\ last.out = [i \in 1..Len(last.preForest) |->
                        EvSetTag(last.preForest[i], last.tagArg)]
       /\ \A h \in Trees :
            /\ tag[h] = IF Occurs(forest, h) THEN last.tagArg ELSE last.preTag[h]
            /\ Occurs(forest, h) => armed[h] = last.tagArg
  /\ last.op \in {"handle.level", "Timber.level"} =>
       \A h \in Trees : Occurs(last.preForest, h) =>
         /\ OneTimeTags(h)
         /\ Len(Recorded("isLoggable", {h})) = Occurrences(last.preForest, h)
         /\ tag[h] = Undefined
         /\ armed[h] = Undefined

\* After Timber.tag("t") with registry [H1, H2], warn("x") on the returned
\* tree gave both write hooks (warn, "t", "x"), once each.
C9_Witness ==
  /\ last.op = "handle.level"
  /\ last.preForest = <<"H1", "H2">>
  /\ last.preArmed["H1"] = "t"
  /\ last.preArmed["H2"] = "t"
  /\ Recorded("log", Trees) = <<EvLog("H1", Level.Warn, "t", "x", <<>>),
                                EvLog("H2", Level.Warn, "t", "x", <<>>)>>
  /\ tag["H1"] = Undefined
  /\ tag["H2"] = Undefined

\* C10: in every level call on a tree, isLoggable(level, tag) is evaluated
\* once; when it returns false the write hook is not called and the call
\* returns normally, when it returns true the write hook is called exactly
\* once with (level, tag, message, ...extras).  The inherited isLoggable
\* returns true for every level and tag.
C10_FilterGatesLog ==
  LET out == last.out
  IN /\ last.op \in {"tree.level", "handle.level", "Timber.level"} => last.err = NoError
     /\ \A i \in 1..Len(out) :
          /\ out[i].ev = "level" =>
               /\ i < Len(out)
               /\ out[i + 1].ev = "isLoggable"
               /\ out[i + 1].tree = out[i].tree
               /\ out[i + 1].level = out[i].level
          /\ out[i].ev = "isLoggable" =>
               /\ i > 1
               /\ out[i - 1].ev = "level"
               /\ IF out[i].result
                  THEN /\ i < Len(out)
                       /\ out[i + 1] = EvLog(out[i].tree, out[i].level, out[i].tag,
                                             out[i - 1].msg, out[i - 1].extras)
                  ELSE i = Len(out) \/ out[i + 1].ev # "log"
          /\ out[i].ev = "log" =>
               /\ i > 1
               /\ out[i - 1].ev = "isLoggable"
               /\ out[i - 1].tree = out[i].tree
               /\ out[i - 1].result
          /\ (out[i].ev = "isLoggable" /\ out[i].tree \notin MockedTrees)
               => out[i].result

\* A level call on H2 whose isLoggable returned false for a pending tag:
\* nothing but the entry and the isLoggable call was recorded.
C10_Witness ==
  /\ last.op = "tree.level"
  /\ last.tree = "H2"
  /\ last.preArmed["H2"] = "t"
  /\ last.err = NoError
  /\ last.out = <<EvLevel("H2", last.level, last.msg, last.extras),
                  EvIsLoggable("H2", last.level, "t", FALSE)>>

\* C11: a level call through the facade, or through the dispatcher that an
\* earlier Timber.tag returned, enters the level method of exactly the
\* entries the registry has when the level call is made, in registry order:
\* a tree uprooted before the call gets no call at all, whether or not it
\* was planted when the dispatcher was obtained, and a tree planted after
\* the dispatcher was obtained is called.
C11_LiveRegistry ==
  last.op \in {"Timber.level", "handle.level"} =>
    LET entries == Recorded("level", Trees)
    IN /\ [i \in 1..Len(entries) |-> entries[i].tree] = last.preForest
       /\ \A h \in Trees :
            /\ ~Occurs(last.preForest, h) =>
                 \A i \in 1..Len(last.out) : last.out[i].tree # h
            /\ (Occurs(last.preForest, h) /\ ~Occurs(snapshot, h)) =>
                 Len(Recorded("level", {h})) = Occurrences(last.preForest, h)

\* The dispatcher was obtained while the registry was [H1]; then H1 was
\* uprooted and H2 planted; a level call on the dispatcher reached H2's write
\* hook and nothing of H1.
C11_Witness ==
  /\ last.op = "handle.level"
  /\ snapshot = <<"H1">>
  /\ last.preForest = <<"H2">>
  /\ Len(Recorded("log", {"H2"})) = 1
  /\ \A i \in 1..Len(last.out) : last.out[i].tree # "H1"

\* The positions, among the write-hook calls of the last call, of the hooks
\* that throw.
Throwers ==
  LET logs == Recorded("log", Trees)
  IN { i \in 1..Len(logs) : last.hooks[logs[i].tree] = "throw" }

\* C12: when the write hook of a planted tree throws during a facade level
\* call, the call ends with that error: the throwing hook is the last thing
\* that ran, the entries before it were called in registry order, no entry
\* after it is called, and the throw leaves the registry as it is.  A call in
\* which no throwing hook is reached ends without error.
C12_HookThrowPropagates ==
  last.op = "Timber.level" =>
    LET logs == Recorded("log", Trees)
        entries == Recorded("level", Trees)
        n == Len(entries)
    IN /\ Throwers = {} => last.err = NoError
       /\ Throwers # {} =>
            /\ last.err = ErrHook
            /\ Throwers = {Len(logs)}
            /\ last.out[Len(last.out)] = logs[Len(logs)]
            /\ n <= Len(last.preForest)
            /\ [i \in 1..n |-> entries[i].tree] = SubSeq(last.preForest, 1, n)
            /\ entries[n].tree = logs[Len(logs)].tree
            /\ (\A h \in Trees : last.hooks[h] # "plant") => forest = last.preForest

\* Timber.warn on the registry [H1, H2, H1] with H2's write hook throwing:
\* H1 and H2 were called, the second entry of H1 was not, the call ended with
\* the hook's error and the registry is still [H1, H2, H1].
C12_Witness ==
  /\ last.op = "Timber.level"
  /\ last.level = Level.Warn
  /\ last.preForest = <<"H1", "H2", "H1">>
  /\ last.hooks = [h \in Trees |-> IF h = "H2" THEN "throw" ELSE "record"]
  /\ last.err = ErrHook
  /\ Len(Recorded("log", {"H1"})) = 1
  /\ Len(Recorded("log", {"H2"})) = 1
  /\ forest = <<"H1", "H2", "H1">>

\* f without its first entry that is h.
RemoveFirst(f, h) ==
  LET i == CHOOSE i \in 1..Len(f) : f[i] = h /\ \A j \in 1..(i - 1) : f[j] # h
  IN SubSeq(f, 1, i - 1) \o SubSeq(f, i + 1, Len(f))

\* f after the first n of args were uprooted one after the other.
RECURSIVE Uprooted(_, _, _)
Uprooted(f, args, n) ==
  IF n = 0 THEN f ELSE RemoveFirst(Uprooted(f, args, n - 1), args[n])

\* The first n of args can be uprooted from f one after the other.
Uprootable(f, args, n) ==
  \A i \in 1..n : Occurs(Uprooted(f, args, i - 1), args[i])

\* C13: plant and uproot take their arguments from left to right and stop at
\* the first one that fails: what the arguments before it did stays done,
\* the call ends with the error of the failing argument, and no argument
\* after it is applied.
C13_StopsAtFirstFailure ==
  /\ last.op = "plant" =>
       LET bad == { i \in 1..Len(last.args) : last.args[i] \notin Trees }
           k == IF bad = {} THEN Len(last.args) + 1
                ELSE CHOOSE i \in bad : \A j \in bad : i <= j
       IN /\ forest = last.preForest \o SubSeq(last.args, 1, k - 1)
          /\ last.err = IF bad = {} THEN NoError
                        ELSE IF last.args[k] = Souls THEN ErrSelf ELSE ErrNull
  /\ last.op = "uproot" =>
       LET ok == { n \in 0..Len(last.args) : Uprootable(last.preForest, last.args, n) }
           k == CHOOSE n \in ok : \A j \in ok : j <= n
       IN /\ forest = Uprooted(last.preForest, last.args, k)
          /\ treeCount(forest) = treeCount(last.preForest) - k
          /\ last.err = IF k = Len(last.args) THEN NoError ELSE ErrNotPlanted

\* plant(H2, null) on [H1] failed on null and left [H1, H2].
C13_Witness ==
  /\ last.op = "plant"
  /\ last.args = <<"H2", Null>>
  /\ last.preForest = <<"H1">>
  /\ last.err = ErrNull
  /\ forest = <<"H1", "H2">>

\* uproot(H1, H1) on [H2, H1] removed H1, failed on the second H1 and left
\* [H2].
C13_WitnessUproot ==
  /\ last.op = "uproot"
  /\ last.args = <<"H1", "H1">>
  /\ last.preForest = <<"H2", "H1">>
  /\ last.err = ErrNotPlanted
  /\ forest = <<"H2">>

\* The number of steps of kind name that prepareLog made on tree h during
\* the last call.
StepCount(name, h) ==
  Cardinality({ i \in 1..Len(last.steps) :
                  last.steps[i].step = name /\ last.steps[i].tree = h })

\* C18: within a level call on a tree the tag is read, then the slot is
\* cleared, then isLoggable is evaluated, then the write hook is called:
\* isLoggable runs exactly once per level call, with the level of the call
\* and the tag that was read, while the slot is already empty.
C18_PipelineOrder ==
  LET st == last.steps
  IN /\ \A i \in 1..Len(st) :
          /\ st[i].step = "getTag" =>
               /\ st[i].val = st[i].slot
               /\ i + 2 <= Len(st)
               /\ st[i + 1] = Step("delete", st[i].tree, Undefined, Undefined)
               /\ st[i + 2] = Step("isLoggable", st[i].tree, st[i].val, Undefined)
          /\ st[i].step \in {"delete", "isLoggable"} =>
               (i > 1 /\ st[i - 1].tree = st[i].tree)
          /\ st[i].step = "delete" => st[i - 1].step = "getTag"
          /\ st[i].step = "isLoggable" => st[i - 1].step = "delete"
          /\ st[i].step = "log" =>
               /\ i > 1
               /\ st[i - 1] = Step("isLoggable", st[i].tree, st[i].val, Undefined)
     /\ \A h \in AllTrees :
          LET entries == Recorded("level", {h})
              checks == Recorded("isLoggable", {h})
          IN /\ StepCount("isLoggable", h) = Len(entries)
             /\ Len(checks) = Len(entries)
             /\ \A k \in 1..Len(checks) : checks[k].level = entries[k].level
     /\ last.op = "tree.level" =>
          /\ Len(st) >= 3
          /\ st[1] = Step("getTag", last.tree, last.preTag[last.tree],
                          last.preTag[last.tree])
          /\ Recorded("isLoggable", {last.tree})[1].tag = last.preTag[last.tree]
          /\ Recorded("isLoggable", {last.tree})[1].level = last.level

\* H2.setTag("t"); H2.error("x"): the tag was read, the slot cleared, then
\* isLoggable got (error, "t") with the slot empty, then log ran.
C18_Witness ==
  /\ last.op = "tree.level"
  /\ last.tree = "H2"
  /\ last.level = Level.Error
  /\ last.steps = << Step("getTag", "H2", "t", "t"),
                     Step("delete", "H2", Undefined, Undefined),
                     Step("isLoggable", "H2", "t", Undefined),
                     Step("log", "H2", "t", Undefined) >>

\* C19: when a level call on a tree has returned, the tree's tag slot is
\* empty, also when isLoggable returned false; the same holds for every tree
\* that a facade or chain-handle call entered.
C19_SlotEmptyAfterLevel ==
  (last.op \in {"tree.level", "Timber.level", "handle.level"} /\ last.err = NoError)
    => \A h \in AllTrees :
         (h = last.tree \/ LevelEntered([out |-> last.out], h)) =>
           /\ tag[h] = Undefined
           /\ getTag(Machine(forest, tag), h) = Undefined

\* H2.setTag("t"); H2.warn("x") with H2's isLoggable returning false: the
\* write hook did not run and the slot is empty.
C19_Witness ==
  /\ last.op = "tree.level"
  /\ last.tree = "H2"
  /\ last.preTag["H2"] = "t"
  /\ Recorded("isLoggable", {"H2"}) =
       <<EvIsLoggable("H2", last.level, "t", FALSE)>>
  /\ Recorded("log", {"H2"}) = <<>>
  /\ tag["H2"] = Undefined

\* The number of times a write hook that plants ran during the last call.
PlantingHooksRun ==
  LET logs == Recorded("log", Trees)
  IN Cardinality({ i \in 1..Len(logs) : last.hooks[logs[i].tree] = "plant" })

\* C20: a tree that the write hook of a planted tree plants while a facade
\* fan-out is running is appended to the registry but is not called in that
\* fan-out, which enters the entries the registry had when it began and no
\* more; every later facade call enters it, as it enters every entry of the
\* registry it finds.
C20_PlantedInFlight ==
  (last.op = "Timber.level" /\ \A h \in Trees : last.hooks[h] # "throw") =>
    LET entries == Recorded("level", Trees)
    IN /\ last.err = NoError
       /\ [i \in 1..Len(entries) |-> entries[i].tree] = last.preForest
       /\ forest = last.preForest
                     \o [i \in 1..PlantingHooksRun |-> Sapling]
       /\ \A h \in Trees :
            Len(Recorded("level", {h})) = Occurrences(last.preForest, h)

\* Timber.debug on the registry [H1] with H1's write hook planting H2: H2 is
\* planted and was not called.
C20_Witness ==
  /\ last.op = "Timber.level"
  /\ last.preForest = <<"H1">>
  /\ last.hooks["H1"] = "plant"
  /\ forest = <<"H1", "H2">>
  /\ Recorded("level", {"H1"}) # <<>>
  /\ \A i \in 1..Len(last.out) : last.out[i].tree # "H2"

\* The facade call after that one entered H1 and then H2, the tree planted
\* in flight.
C20_WitnessNextCall ==
  /\ last.op = "Timber.level"
  /\ last.preForest = <<"H1", "H2">>
  /\ last.hooks = NoHooks
  /\ Len(Recorded("log", {"H2"})) = 1

\* C15 as stated: for every level DebugTree's write hook makes exactly one
\* call, on the console method named like the level, with "[tag]", message,
\* extras when a tag is given and message, extras when none is given.
C15_MarkerWhenTagGiven ==
  last.op = "DebugTree.log" =>
    /\ Len(last.console) = 1
    /\ last.console[1].method = last.level
    /\ last.console[1].args =
         IF last.tagArg # Undefined
         THEN <<"[" \o last.tagArg \o "]", last.msg>> \o last.extras
         ELSE <<last.msg>> \o last.extras

\* C15, amended: for every level DebugTree's write hook makes exactly one
\* call, on the console method named like the level; the arguments are
\* "[tag]", message, extras when the tag is a non-empty string, and message,
\* extras with no marker when the tag is absent or the empty string.
C15_MarkerWhenTagNonEmpty ==
  last.op = "DebugTree.log" =>
    /\ Len(last.console) = 1
    /\ last.console[1].method = last.level
    /\ last.console[1].args =
         IF last.tagArg \notin {Undefined, ""}
         THEN <<"[" \o last.tagArg \o "]", last.msg>> \o last.extras
         ELSE <<last.msg>> \o last.extras

\* log(warn, "", "x", "e") called console.warn("x", "e"): no marker for the
\* empty tag.
C15_Witness ==
  /\ last.op = "DebugTree.log"
  /\ last.level = Level.Warn
  /\ last.tagArg = ""
  /\ last.console = <<ConsoleCall("warn", <<"x", "e">>)>>

\* log(error, "tag", "whatever") called console.error("[tag]", "whatever").
C15_WitnessTagged ==
  /\ last.op = "DebugTree.log"
  /\ last.tagArg = "tag"
  /\ last.console = <<ConsoleCall("error", <<"[tag]", "whatever">>)>>

\* C16 as stated: getTag() returns the tree's current tag and clears the slot
\* in the same step, so that a getTag() or a level call after it finds no
\* tag.
C16_GetTagClears ==
  last.op = "getTag" =>
    /\ last.ret = last.preTag[last.tree]
    /\ tag[last.tree] = Undefined

\* What the code does: getTag() returns the current tag and leaves the slot
\* as it is; only a level call empties it.
C16_GetTagKeeps ==
  last.op = "getTag" =>
    /\ last.ret = last.preTag[last.tree]
    /\ tag = last.preTag

\* H1.setTag("t"); H1.getTag() returned "t" and the slot still holds "t".
C16_StillTagged ==
  /\ last.op = "getTag"
  /\ last.tree = "H1"
  /\ last.ret = "t"
  /\ tag["H1"] = "t"

\* C14 as stated: a direct call of the dispatcher's write hook fails with
\* the missing-override error and delivers nothing to any tree, and no level
\* call through the facade or the chain-handle reaches that write hook.
C14_DispatcherLogIsMisuse ==
  /\ last.op = "handle.log" =>
       /\ last.err = ErrMissingOverride
       /\ Recorded("level", Trees) = <<>>
  /\ last.op \in {"Timber.level", "handle.level"} =>
       Recorded("log", {Souls}) = <<>>

\* What src/src/index.ts does: the dispatcher's write hook is its fan-out.  A direct
\* call of it enters every registry entry and throws nothing, and every
\* facade or chain-handle level call reaches it exactly once.
C14_DispatcherLogFansOut ==
  /\ last.op = "handle.log" =>
       /\ last.err = NoError
       /\ [i \in 1..Len(Recorded("level", Trees)) |->
             Recorded("level", Trees)[i].tree] = last.preForest
  /\ last.op \in {"Timber.level", "handle.level"} =>
       Len(Recorded("log", {Souls})) = 1

\* Timber.tag("t").log(debug, undefined, "x") on the registry [H1] returned
\* without error and H1's write hook ran with the tag "t".
C14_DirectLogDelivered ==
  /\ last.op = "handle.log"
  /\ last.preForest = <<"H1">>
  /\ last.err = NoError
  /\ Recorded("log", {"H1"}) = <<EvLog("H1", Level.Debug, "t", "x", <<>>)>>

\* C17 as stated: a level call on the dispatcher does not read or clear the
\* dispatcher's own tag slot and does not evaluate the dispatcher's own
\* isLoggable; it only enters the level method of each registry entry.
C17_DispatcherBypassesPipeline ==
  last.op \in {"Timber.level", "handle.level"} =>
    /\ tag[Souls] = last.preTag[Souls]
    /\ StepCount("getTag", Souls) = 0
    /\ StepCount("delete", Souls) = 0
    /\ Recorded("isLoggable", {Souls}) = <<>>
    /\ [i \in 1..Len(Recorded("level", Trees)) |->
          Recorded("level", Trees)[i].tree] = last.preForest

\* What src/src/index.ts does: a level call on the dispatcher runs
\* Tree.prepareLog on
\* the dispatcher: its slot is read and emptied and its isLoggable is asked
\* once, with the tag read, before the entries are entered.
C17_DispatcherRunsPipeline ==
  last.op \in {"Timber.level", "handle.level"} =>
    /\ tag[Souls] = Undefined
    /\ StepCount("getTag", Souls) = 1
    /\ StepCount("delete", Souls) = 1
    /\ Recorded("isLoggable", {Souls}) =
         <<EvIsLoggable(Souls, last.level, last.preTag[Souls], TRUE)>>
    /\ [i \in 1..Len(Recorded("level", Trees)) |->
          Recorded("level", Trees)[i].tree] = last.preForest

\* const d = Timber.tag("t"); d.setTag("t"); d.info("x"): the dispatcher's
\* own tag was read, handed to its isLoggable and cleared.
C17_DispatcherTagConsumed ==
  /\ last.op = "handle.level"
  /\ last.preTag[Souls] = "t"
  /\ tag[Souls] = Undefined
  /\ Recorded("isLoggable", {Souls}) = <<EvIsLoggable(Souls, last.level, "t", TRUE)>>

\* C21: the tag that Timber.tag(T) sets on the trees planted at that moment
\* stays in each tree's slot until that tree's own next level call, however
\* the call is reached: plant, uproot and uprootAll touch no slot, Timber.tag
\* gives nothing to a tree that is not planted, and the first level call
\* that enters a tree, through the facade or directly, planted or uprooted
\* meanwhile, hands it the pending tag once.
C21_TagPendingUntilLevel ==
  /\ \A h \in Trees : tag[h] = armed[h]
  /\ last.op \in {"plant", "uproot", "uprootAll"} => tag = last.preTag
  /\ last.op = "tag" =>
       \A h \in Trees :
         tag[h] = IF Occurs(last.preForest, h) THEN last.tagArg ELSE last.preTag[h]
  /\ last.op \in {"Timber.level", "tree.level"} =>
       \A h \in Trees :
         /\ OneTimeTags(h)
         /\ ~LevelEntered([out |-> last.out], h) => tag[h] = last.preTag[h]
         /\ LevelEntered([out |-> last.out], h) =>
              Recorded("isLoggable", {h})[1].tag = last.preTag[h]

\* Timber.tag("t") with H1 planted, then H2 planted, then a plain
\* Timber.warn("x"): H1's write hook got "t", H2's got no tag.
C21_Witness ==
  /\ last.op = "Timber.level"
  /\ last.preForest = <<"H1", "H2">>
  /\ last.preTag["H1"] = "t"
  /\ last.preTag["H2"] = Undefined
  /\ Recorded("log", Trees) = <<EvLog("H1", Level.Warn, "t", "x", <<>>),
                                EvLog("H2", Level.Warn, Undefined, "x", <<>>)>>

\* H1 was tagged by Timber.tag("t") and uprooted; its next level call, a
\* direct one, delivered "t".
C21_WitnessUprooted ==
  /\ last.op = "tree.level"
  /\ last.tree = "H1"
  /\ ~Occurs(last.preForest, "H1")
  /\ Recorded("log", {"H1"}) = <<EvLog("H1", last.level, "t", last.msg, last.extras)>>

\* H1 was tagged by Timber.tag("t"), uprooted, not called, and planted again:
\* the next facade call delivered "t" to it.
C21_WitnessReplanted ==
  /\ last.op = "Timber.level"
  /\ last.preForest = <<"H2", "H1">>
  /\ last.preTag = [h \in AllTrees |-> IF h = "H1" THEN "t" ELSE Undefined]
  /\ Recorded("log", {"H1"}) = <<EvLog("H1", last.level, "t", last.msg, last.extras)>>

\* C22: the tag slot belongs to the tree, not to the registry entry.  When
\* a tree is planted more than once and holds the tag of a Timber.tag(T),
\* one level call through the facade or the chain-handle runs the tree's
\* write hook once per entry: the call for its first entry gets T, the call
\* for every later entry gets no tag (for a tree whose isLoggable admits the
\* calls; isLoggable itself sees the same tags).
C22_TagPerTree ==
  last.op \in {"Timber.level", "handle.level"} =>
    \A h \in Trees : Occurrences(last.preForest, h) >= 2 =>
      LET checks == Recorded("isLoggable", {h})
          logs == Recorded("log", {h})
      IN /\ Len(checks) = Occurrences(last.preForest, h)
         /\ checks[1].tag = last.preTag[h]
         /\ \A i \in 2..Len(checks) : checks[i].tag = Undefined
         /\ Admitted({h}) =>
              /\ Len(logs) = Occurrences(last.preForest, h)
              /\ logs[1].tag = last.preTag[h]
              /\ \A i \in 2..Len(logs) : logs[i].tag = Undefined

\* plant(H1); plant(H1); Timber.tag("t").info("x"): H1's write hook ran
\* twice, with "t" and then with no tag.
C22_Witness ==
  /\ last.op = "handle.level"
  /\ snapshot = <<"H1", "H1">>
  /\ last.preForest = <<"H1", "H1">>
  /\ last.preTag["H1"] = "t"
  /\ Recorded("log", Trees) = <<EvLog("H1", Level.Info, "t", "x", <<>>),
                                EvLog("H1", Level.Info, Undefined, "x", <<>>)>>

\* C23: the fan-out walks the live registry by index.  While write hooks
\* call Timber.uproot or Timber.uprootAll during a facade call, the indices
\* go up one by one to the length the registry had when the call began;
\* the tree entered at an index is the entry the registry has at that index
\* at that moment, so a tree is never entered after its last entry was
\* removed; an index the registry no longer has is passed over, so entries
\* that moved down to or below the current index are not entered in this
\* call.  With the registry [a, b] and a uprooting itself in its write hook,
\* b is not entered.
C23_LiveIndexedFanOut ==
  last.op = "Timber.level" =>
    LET vs == last.visits
        entered == SelectSeq(vs, LAMBDA v : v.tree # Undefined)
        entries == Recorded("level", Trees)
    IN /\ Len(vs) <= Len(last.preForest)
       /\ last.err = NoError => Len(vs) = Len(last.preForest)
       /\ vs # <<>> => vs[1].forest = last.preForest
       /\ \A i \in 1..Len(vs) :
            /\ vs[i].index = i
            /\ vs[i].tree = IF i <= Len(vs[i].forest) THEN vs[i].forest[i]
                            ELSE Undefined
            /\ vs[i].tree # Undefined => Occurs(vs[i].forest, vs[i].tree)
       /\ [i \in 1..Len(entries) |-> entries[i].tree]
            = [i \in 1..Len(entered) |-> entered[i].tree]
       /\ \A a \in Trees :
            (/\ last.preForest = <<a, Other(a)>>
             /\ last.hooks[a] = "uprootSelf"
             /\ Admitted({a}))
            => /\ forest = <<Other(a)>>
               /\ \A i \in 1..Len(last.out) : last.out[i].tree # Other(a)

\* Timber.error on the registry [H1, H2] with H1's write hook calling
\* Timber.uproot(H1): the registry is [H2], index 2 was passed over and H2
\* was not called.
C23_Witness ==
  /\ last.op = "Timber.level"
  /\ last.preForest = <<"H1", "H2">>
  /\ last.hooks["H1"] = "uprootSelf"
  /\ last.err = NoError
  /\ forest = <<"H2">>
  /\ last.visits = << Visit(1, <<"H1", "H2">>, "H1"), Visit(2, <<"H2">>, Undefined) >>
  /\ \A i \in 1..Len(last.out) : last.out[i].tree # "H2"

\* On [H1, H2, H1] with H1 uprooting itself, H2 moved down to index 1 and was
\* not called; the second entry of H1 was called at index 2.
C23_WitnessShifted ==
  /\ last.op = "Timber.level"
  /\ last.preForest = <<"H1", "H2", "H1">>
  /\ last.hooks["H1"] = "uprootSelf"
  /\ forest = <<"H2">>
  /\ Len(Recorded("log", {"H1"})) = 2
  /\ \A i \in 1..Len(last.out) : last.out[i].tree # "H2"

\* On [H1, H2] with H1's write hook calling Timber.uprootAll(), H2 was not
\* called and the registry is empty.
C23_WitnessUprootAll ==
  /\ last.op = "Timber.level"
  /\ last.preForest = <<"H1", "H2">>
  /\ last.hooks["H1"] = "uprootAll"
  /\ forest = <<>>
  /\ Len(Recorded("log", {"H1"})) = 1
  /\ \A i \in 1..Len(last.out) : last.out[i].tree # "H2"

====
